---- MODULE Spec2Model ----
(***************************************************************************)
(* aiosbb: the session object SBBClient (src/aiosbb/sbbclient.py) and the  *)
(* transaction it runs for every invocation of __call__, as a state        *)
(* machine.                                                                *)
(*                                                                         *)
(* Every caller is an asyncio task.  A step of the model is what one task  *)
(* runs between two suspension points (await wait_for(...), a blocked      *)
(* semaphore.acquire(), await sleep(0)); steps of different tasks          *)
(* interleave freely.  The invocations in flight of one caller form a      *)
(* stack of frames: the bottom frame is the caller's own call, a frame     *)
(* above it is the nested call on init_commands of line 112.         *)
(***************************************************************************)
EXTENDS Integers, Sequences, FiniteSets, TLC

\* ------------------------------------------------------------------ bounds
NumCallers == 2
MaxCalls == 3
SoloCalls == 1
RetryCalls == 2
MaxConns == 2
MaxDepth == 2
MaxRes == 3

Callers == 1..NumCallers
Conns == 1..MaxConns

\* ------------------------------------------------------- program constants
init_commands == <<"configure echoCommands 1", "detatchController">>

CmdPeak == "peak 100 10"
CmdSeq == "clickSeqA"
ArgSets == {<<CmdPeak>>, <<CmdSeq>>, <<CmdPeak, CmdPeak>>}
PairArgs == {<<CmdPeak>>, <<CmdPeak, CmdPeak>>}
RetryArgs == {<<CmdPeak>>}

Sentinel == "done"

\* the address of the agent, and the address strings a session is built with
Host == "10.0.0.1"
Ips == {Host, "256.0.0.1", "a.b.c.d", "1.2.3", "10.0.0.1\n",
        "01.2.3.4", "1.2.3.4.5", "1..2.3", "255.0.0.249"}

\* ---------------------------------------------------------- pure functions
\* line 118-119: command += "\r\n"; command.encode()
Encode(command) == command \o "\r\n"

\* line 125: "Seq" in command
IsSeq(command) == \E i \in 1..(Len(command) - 2) : SubSeq(command, i, i + 2) = "Seq"

\* Strip as it would be if it dropped a two-byte terminator: r[:-2]
StripTwo(r) == IF Len(r) <= 1 THEN "" ELSE SubSeq(r, 1, Len(r) - 2)

\* line 130: r[:-1].decode(), drops the last byte whatever it is
Strip(r) == IF Len(r) = 0 THEN "" ELSE SubSeq(r, 1, Len(r) - 1)

\* Project as it would be without the case of a single line (lines 144-145)
ProjectTuple(res) ==
    IF Len(res) # 0
    THEN [kind |-> "tuple", val |-> res]
    ELSE [kind |-> "true", val |-> <<>>]

\* lines 143-149: the projection of the response batch
Project(res) ==
    IF Len(res) # 0
    THEN IF Len(res) = 1
         THEN [kind |-> "scalar", val |-> <<res[1]>>]
         ELSE [kind |-> "tuple", val |-> res]
    ELSE [kind |-> "true", val |-> <<>>]

\* patterns.py lines 9-12: one octet of ipv4_pattern,
\* [0-9] | [1-9][0-9] | 1[0-9]{2} | 2[0-4][0-9] | 25[0-5]
Digits == {"0", "1", "2", "3", "4", "5", "6", "7", "8", "9"}
IsOctet(s) ==
    \/ Len(s) = 1 /\ s \in Digits
    \/ /\ Len(s) = 2
       /\ SubSeq(s, 1, 1) \in Digits \ {"0"}
       /\ SubSeq(s, 2, 2) \in Digits
    \/ /\ Len(s) = 3
       /\ SubSeq(s, 1, 1) = "1"
       /\ SubSeq(s, 2, 2) \in Digits
       /\ SubSeq(s, 3, 3) \in Digits
    \/ /\ Len(s) = 3
       /\ SubSeq(s, 1, 1) = "2"
       /\ SubSeq(s, 2, 2) \in {"0", "1", "2", "3", "4"}
       /\ SubSeq(s, 3, 3) \in Digits
    \/ /\ Len(s) = 3
       /\ SubSeq(s, 1, 2) = "25"
       /\ SubSeq(s, 3, 3) \in {"0", "1", "2", "3", "4", "5"}

\* patterns.py lines 9-12 with sbbclient.py line 70: ipv4_pattern.match(ip),
\* ^octet(\.octet){3}$ where $ also matches before a final line feed
ipv4_pattern(s) ==
    LET t == IF Len(s) > 0 /\ SubSeq(s, Len(s), Len(s)) = "\n"
             THEN SubSeq(s, 1, Len(s) - 1)
             ELSE s
    IN \E i, j, k \in 1..Len(t) :
          /\ i < j /\ j < k
          /\ SubSeq(t, i, i) = "." /\ SubSeq(t, j, j) = "." /\ SubSeq(t, k, k) = "."
          /\ IsOctet(SubSeq(t, 1, i - 1))
          /\ IsOctet(SubSeq(t, i + 1, j - 1))
          /\ IsOctet(SubSeq(t, j + 1, k - 1))
          /\ IsOctet(SubSeq(t, k + 1, Len(t)))

\* sbbclient.py lines 56-73: _validate_ip returns the address or raises
\* ValueError
validate_ip(addr) ==
    IF ipv4_pattern(addr)
    THEN [raised |-> FALSE, value |-> addr]
    ELSE [raised |-> TRUE, value |-> addr]

\* validations.py line 20: with suppress(Exception), under which an exception
\* of the validator ends the block silently
Suppress(outcome) == [outcome EXCEPT !.raised = FALSE]

\* The agent's answers to one command line.  Echo: the echo alone.  Responses:
\* the echo alone, the echo and one data line in either order, a data line
\* equal to the sentinel before the echo, and for a sequence command the echo,
\* the streamed lines and the sentinel.
Echo(line) == {<<line>>}
Responses(line) ==
    {<<line>>, <<line, "a\n">>, <<"a\n", line>>, <<"done\n", line>>}
      \cup (IF IsSeq(line)
            THEN {<<line, "done\n">>, <<line, "a\n", "b\n", "done\n">>}
            ELSE {})

\* the agent acknowledges an initialization command with its echo, after at
\* most one line of output, and answers every other command as in Responses
Answers(line) ==
    IF \E i \in 1..Len(init_commands) : line = Encode(init_commands[i])
    THEN {<<line>>, <<"a\n", line>>}
    ELSE Responses(line)

\* ------------------------------------------------------------------- state
VARIABLES
    semaphore,   \* self.semaphore._value
    connected,   \* self.connected
    reader,      \* self.reader: the connection it reads, 0 for None
    writer,      \* self.writer: the connection it writes, 0 for None
    frames,      \* per caller, the stack of invocations of __call__ in flight
    calls,       \* number of invocations started by callers
    opened,      \* number of connections open_connection has returned
    wire,        \* per connection, the lines written to it, with who wrote them
    inbox,       \* per connection, the lines the agent sent that are not read yet
    sent,        \* per connection, the agent's answer to each command served
    eof,         \* per connection, whether the agent closed it
    handshake,   \* per connection, how many initialization commands were
                 \* written to it and acknowledged on it, in order
    last,        \* per caller, the outcome of the last call that returned
    closed,      \* the connections whose streams the session has closed
    disc,        \* the outcome of the last call of disconnect()
    ip,          \* self.ip
    built        \* whether the constructor has run: "no", "yes", "raised"

vars == <<semaphore, connected, reader, writer, frames, calls, opened,
          wire, inbox, sent, eof, handshake, last, closed, disc, ip, built>>

NoCall == [call |-> 0, args |-> <<>>, res |-> <<>>, result |-> Project(<<>>),
           fault |-> FALSE, connected |-> FALSE, log |-> <<>>, held |-> FALSE]

\* no call of disconnect() has returned yet
NoDisc == [done |-> FALSE, was |-> FALSE, error |-> FALSE, now |-> FALSE,
           stream |-> 0]

\* lines 75-84: a session constructed with the address Host
Init ==
    /\ semaphore = 1
    /\ connected = FALSE
    /\ reader = 0
    /\ writer = 0
    /\ frames = [p \in Callers |-> <<>>]
    /\ calls = 0
    /\ opened = 0
    /\ wire = [c \in Conns |-> <<>>]
    /\ inbox = [c \in Conns |-> <<>>]
    /\ sent = [c \in Conns |-> <<>>]
    /\ eof = [c \in Conns |-> FALSE]
    /\ handshake = [c \in Conns |-> 0]
    /\ last = [p \in Callers |-> NoCall]
    /\ closed = {}
    /\ disc = NoDisc
    /\ ip = Host
    /\ built = "yes"

\* a session that is about to be constructed with one of the addresses Ips
InitBuild ==
    /\ semaphore = 1
    /\ connected = FALSE
    /\ reader = 0
    /\ writer = 0
    /\ frames = [p \in Callers |-> <<>>]
    /\ calls = 0
    /\ opened = 0
    /\ wire = [c \in Conns |-> <<>>]
    /\ inbox = [c \in Conns |-> <<>>]
    /\ sent = [c \in Conns |-> <<>>]
    /\ eof = [c \in Conns |-> FALSE]
    /\ handshake = [c \in Conns |-> 0]
    /\ last = [p \in Callers |-> NoCall]
    /\ closed = {}
    /\ disc = NoDisc
    /\ ip \in Ips
    /\ built = "no"

\* SBBClient(ip): validations.py lines 14-21 run the validator of the field ip
\* under suppress(Exception) and assign what it returns; then sbbclient.py
\* lines 78-80 set the fields of the session
Construct ==
    /\ built = "no"
    /\ LET outcome == Suppress(validate_ip(ip)) IN
       IF outcome.raised
       THEN /\ built' = "raised"
            /\ UNCHANGED <<ip, semaphore, connected, reader, writer>>
       ELSE /\ built' = "yes"
            /\ ip' = outcome.value
            /\ semaphore' = 1
            /\ connected' = FALSE
            /\ reader' = 0
            /\ writer' = 0
    /\ UNCHANGED <<closed, disc, frames, calls, opened, wire, inbox, sent, eof,
                   handshake, last>>

\* ----------------------------------------------------------------- frames
\* line 106: a fresh invocation.  k is the number of the command of the for
\* loop, rd the connection the pending readline reads, wr the connection the
\* command was written to, held whether the frame passed line 114, log the
\* lines it has read.
NewFrame(args, n) ==
    [pc |-> "start", args |-> args, k |-> 0, res |-> <<>>, rd |-> 0, wr |-> 0,
     held |-> FALSE, call |-> n, log |-> <<>>]

Depth(p) == Len(frames[p])
Top(p) == frames[p][Len(frames[p])]
At(p, pc) == frames[p] # <<>> /\ Top(p).pc = pc
SetTop(s, f) == [s EXCEPT ![Len(s)] = f]
Pop(s) == SubSeq(s, 1, Len(s) - 1)

\* lines 137-149: the top frame of stack s leaves __call__ with permit count
\* sem and connected flag conn: the finally block releases the semaphore and
\* the batch is projected.  A nested call hands control back to the frame that
\* awaits it at line 112, which goes on to line 114.
Finish(p, s, sem, conn, fault) ==
    LET f == s[Len(s)] IN
    /\ connected' = conn
    /\ semaphore' = sem + 1
    /\ IF Len(s) = 1
       THEN /\ frames' = [frames EXCEPT ![p] = <<>>]
            /\ last' = [last EXCEPT ![p] =
                          [call |-> f.call, args |-> f.args, res |-> f.res,
                           result |-> Project(f.res), fault |-> fault,
                           connected |-> conn, log |-> f.log, held |-> f.held]]
       ELSE /\ frames' = [frames EXCEPT ![p] =
                            SetTop(Pop(s), [s[Len(s) - 1] EXCEPT !.pc = "acquire"])]
            /\ UNCHANGED last

\* lines 116-120: the for loop arrives at command number k of the top frame of
\* s: it writes the command to the current writer and awaits the drain, or the
\* loop is over.  The line on the wire records who wrote it, whether the
\* handshake was complete on that connection and whether the agent owed it no
\* line at that moment.
Transmit(p, s, sem) ==
    LET f == s[Len(s)] IN
    IF f.k <= Len(f.args)
    THEN /\ wire' = [wire EXCEPT ![writer] =
                       Append(@, [line |-> Encode(f.args[f.k]),
                                  call |-> f.call,
                                  depth |-> Len(s),
                                  hs |-> handshake[writer] = Len(init_commands),
                                  clean |-> /\ inbox[writer] = <<>>
                                            /\ Len(sent[writer]) = Len(wire[writer])])]
         /\ frames' = [frames EXCEPT ![p] =
                         SetTop(s, [f EXCEPT !.pc = "drain", !.wr = writer])]
         /\ semaphore' = sem
         /\ UNCHANGED <<connected, last>>
    ELSE /\ Finish(p, s, sem, connected, FALSE)
         /\ UNCHANGED wire

\* line 114: await self.semaphore.acquire(), which does not suspend when a
\* permit is free
Gate(p, s) ==
    LET f == s[Len(s)] IN
    IF semaphore > 0
    THEN Transmit(p, SetTop(s, [f EXCEPT !.held = TRUE, !.k = 1]), semaphore - 1)
    ELSE /\ frames' = [frames EXCEPT ![p] = SetTop(s, [f EXCEPT !.pc = "acquire"])]
         /\ UNCHANGED <<semaphore, connected, wire, last>>

\* lines 106-114: entry of __call__ up to its first suspension
Enter(p, s) ==
    LET f == s[Len(s)] IN
    IF ~connected
    THEN /\ frames' = [frames EXCEPT ![p] = SetTop(s, [f EXCEPT !.pc = "connect"])]
         /\ UNCHANGED <<semaphore, connected, wire, last>>
    ELSE Gate(p, s)

\* ---------------------------------------------------------------- actions
\* a caller invokes the session: await client(args...)
Call(p, args) ==
    /\ frames[p] = <<>>
    /\ calls < MaxCalls
    /\ calls' = calls + 1
    /\ Enter(p, <<NewFrame(args, calls + 1)>>)
    /\ UNCHANGED <<closed, disc, ip, built,
                   reader, writer, opened, inbox, sent, eof, handshake>>

\* lines 88-91: open_connection returns inside _connect
ConnectDone(p) ==
    /\ At(p, "connect")
    /\ opened < MaxConns
    /\ opened' = opened + 1
    /\ reader' = opened + 1
    /\ writer' = opened + 1
    /\ connected' = TRUE
    /\ frames' = [frames EXCEPT ![p] = SetTop(@, [Top(p) EXCEPT !.pc = "connected"])]
    /\ UNCHANGED <<closed, disc, ip, built,
                   semaphore, calls, wire, inbox, sent, eof, handshake, last>>

\* StartInit as it would be without the handshake of line 112
StartInitSkipped(p) ==
    /\ At(p, "connected")
    /\ Gate(p, frames[p])
    /\ UNCHANGED <<closed, disc, ip, built,
                   reader, writer, calls, opened, inbox, sent, eof, handshake>>

\* lines 110-112: wait_for(self._connect()) has returned; the nested call on
\* init_commands starts under wait_for
StartInit(p) ==
    /\ At(p, "connected")
    /\ Depth(p) < MaxDepth
    /\ Enter(p, Append(SetTop(frames[p], [Top(p) EXCEPT !.pc = "init"]),
                       NewFrame(init_commands, Top(p).call)))
    /\ UNCHANGED <<closed, disc, ip, built,
                   reader, writer, calls, opened, inbox, sent, eof, handshake>>

\* line 114: a frame that waits for the gate, or that resumes after the
\* nested call of line 112 returned, takes a free permit
Acquire(p) ==
    /\ At(p, "acquire")
    /\ semaphore > 0
    /\ Transmit(p, SetTop(frames[p], [Top(p) EXCEPT !.held = TRUE, !.k = 1]),
                semaphore - 1)
    /\ UNCHANGED <<closed, disc, ip, built,
                   reader, writer, calls, opened, inbox, sent, eof, handshake>>

\* lines 120-122: the drain returns; readline is called on the current reader
DrainDone(p) ==
    /\ At(p, "drain")
    /\ frames' = [frames EXCEPT ![p] =
                    SetTop(@, [Top(p) EXCEPT !.pc = "read", !.rd = reader])]
    /\ UNCHANGED <<closed, disc, ip, built,
                   semaphore, connected, reader, writer, calls, opened,
                   wire, inbox, sent, eof, handshake, last>>

\* OnEcho as it would be if the echo never ended the read loop of a command
OnEchoContinues(p, g, command) ==
    /\ frames' = [frames EXCEPT ![p] = SetTop(@, [g EXCEPT !.rd = reader])]
    /\ UNCHANGED <<semaphore, connected, wire, last>>

\* OnEcho as it would be without lines 125-127: the echo ends the read loop of
\* every command
OnEchoBreaks(p, g, command) ==
    Transmit(p, SetTop(frames[p], [g EXCEPT !.k = @ + 1]), semaphore)

\* OnEcho as it would be if the echo of a command also passed over the command
\* after it
OnEchoSkips(p, g, command) ==
    IF IsSeq(command)
    THEN /\ frames' = [frames EXCEPT ![p] = SetTop(@, [g EXCEPT !.rd = reader])]
         /\ UNCHANGED <<semaphore, connected, wire, last>>
    ELSE Transmit(p, SetTop(frames[p], [g EXCEPT !.k = @ + 2]), semaphore)

\* lines 123-128: the line read is the echo of the command; a sequence command
\* reads on (continue), any other command is over (break)
OnEcho(p, g, command) ==
    IF IsSeq(command)
    THEN /\ frames' = [frames EXCEPT ![p] = SetTop(@, [g EXCEPT !.rd = reader])]
         /\ UNCHANGED <<semaphore, connected, wire, last>>
    ELSE Transmit(p, SetTop(frames[p], [g EXCEPT !.k = @ + 1]), semaphore)

\* OnData as it would be if every line that is no echo ended the read loop of
\* its command
OnDataBreaks(p, g, r) ==
    LET response == Strip(r)
        h == [g EXCEPT !.res = Append(@, response)]
    IN Transmit(p, SetTop(frames[p], [h EXCEPT !.k = @ + 1]), semaphore)

\* lines 129-136: any other line is appended to the batch; the sentinel ends
\* the command (break), any other line is followed by sleep(0)
OnData(p, g, r) ==
    LET response == Strip(r)
        h == [g EXCEPT !.res = Append(@, response)]
    IN
    IF response = Sentinel
    THEN Transmit(p, SetTop(frames[p], [h EXCEPT !.k = @ + 1]), semaphore)
    ELSE /\ frames' = [frames EXCEPT ![p] = SetTop(@, [h EXCEPT !.pc = "sleep"])]
         /\ UNCHANGED <<semaphore, connected, wire, last>>

\* lines 122-136: readline returns a line, or b"" at end of input
ReadLine(p) ==
    /\ At(p, "read")
    /\ LET f == Top(p)
           c == f.rd
           r == IF inbox[c] # <<>> THEN Head(inbox[c]) ELSE ""
           command == Encode(f.args[f.k])
           g == [f EXCEPT !.log = Append(@, [line |-> r, k |-> f.k])]
       IN
       /\ inbox[c] # <<>> \/ eof[c]
       /\ inbox' = [inbox EXCEPT ![c] = IF @ # <<>> THEN Tail(@) ELSE @]
       /\ IF r = command
          THEN /\ OnEcho(p, g, command)
               /\ handshake' =
                    IF Depth(p) > 1 /\ f.wr = c /\ f.k = handshake[c] + 1
                    THEN [handshake EXCEPT ![c] = @ + 1]
                    ELSE handshake
          ELSE /\ Len(f.res) < MaxRes
               /\ OnData(p, g, r)
               /\ UNCHANGED handshake
    /\ UNCHANGED <<closed, disc, ip, built,
                   reader, writer, calls, opened, sent, eof>>

\* line 136 then 122: sleep(0) returns; readline is called on the current reader
SleepDone(p) ==
    /\ At(p, "sleep")
    /\ frames' = [frames EXCEPT ![p] =
                    SetTop(@, [Top(p) EXCEPT !.pc = "read", !.rd = reader])]
    /\ UNCHANGED <<closed, disc, ip, built,
                   semaphore, connected, reader, writer, calls, opened,
                   wire, inbox, sent, eof, handshake, last>>

\* The wait_for timer of the caller's own frame can expire: while it connects
\* (line 110), while the drain is pending (line 120), while no line has arrived
\* (line 122), and while the nested call is in flight (line 112).  The timer of
\* line 112 is armed before every timer of the nested call, with the same
\* duration, so it is the one that expires, and wait_for cancels the nested
\* call.  The wait at line 114 has no timer.
Expired(p) ==
    LET f == frames[p][1] IN
    IF Depth(p) > 1
    THEN f.pc = "init"
    ELSE \/ f.pc \in {"connect", "drain"}
         \/ f.pc = "read" /\ inbox[f.rd] = <<>> /\ ~eof[f.rd]

\* Timeout as it would be without line 138: connected keeps its value
TimeoutKeepsConnected(p) ==
    /\ frames[p] # <<>>
    /\ Expired(p)
    /\ Finish(p, <<frames[p][1]>>, semaphore + (Depth(p) - 1), connected, TRUE)
    /\ UNCHANGED <<closed, disc, ip, built,
                   reader, writer, calls, opened, wire, inbox, sent, eof, handshake>>

\* Timeout as it would be if line 137 did not catch the timeouts of lines 110
\* and 112: connected keeps its value when the connect or the handshake expires
TimeoutOutsideTry(p) ==
    /\ frames[p] # <<>>
    /\ Expired(p)
    /\ Finish(p, <<frames[p][1]>>, semaphore + (Depth(p) - 1),
              connected /\ frames[p][1].pc \in {"connect", "init"}, TRUE)
    /\ UNCHANGED <<closed, disc, ip, built,
                   reader, writer, calls, opened, wire, inbox, sent, eof, handshake>>

\* Timeout as it would be if the semaphore were released on normal completion
\* only: a call that times out releases nothing
TimeoutKeepsGate(p) ==
    /\ frames[p] # <<>>
    /\ Expired(p)
    /\ Finish(p, <<frames[p][1]>>, semaphore - 1, FALSE, TRUE)
    /\ UNCHANGED <<closed, disc, ip, built,
                   reader, writer, calls, opened, wire, inbox, sent, eof, handshake>>

\* Timeout as it would be if the timeout of a drain or a read were caught
\* inside the for loop: the call goes on with the command after it
TimeoutAdvances(p) ==
    /\ frames[p] # <<>>
    /\ Expired(p)
    /\ IF /\ Depth(p) = 1
          /\ Top(p).pc \in {"drain", "read"}
          /\ Top(p).k < Len(Top(p).args)
       THEN Transmit(p, SetTop(frames[p], [Top(p) EXCEPT !.k = @ + 1]), semaphore)
       ELSE /\ Finish(p, <<frames[p][1]>>, semaphore + (Depth(p) - 1), FALSE, TRUE)
            /\ UNCHANGED wire
    /\ UNCHANGED <<closed, disc, ip, built,
                   reader, writer, calls, opened, inbox, sent, eof, handshake>>

\* lines 137-149: except TimeoutError, finally, return.  CancelledError is not
\* caught at line 137, so each cancelled nested frame runs its finally block
\* (line 141) only.
Timeout(p) ==
    /\ frames[p] # <<>>
    /\ Expired(p)
    /\ Finish(p, <<frames[p][1]>>, semaphore + (Depth(p) - 1), FALSE, TRUE)
    /\ UNCHANGED <<closed, disc, ip, built,
                   reader, writer, calls, opened, wire, inbox, sent, eof, handshake>>

\* the command line the agent has to answer next on connection c
Pending(c) ==
    IF Len(sent[c]) < Len(wire[c]) THEN wire[c][Len(sent[c]) + 1].line ELSE ""

\* the agent answers the next command it has not answered yet with the lines
\* resp
AgentRespond(c, resp) ==
    /\ c <= opened
    /\ ~eof[c]
    /\ Len(sent[c]) < Len(wire[c])
    /\ inbox' = [inbox EXCEPT ![c] = @ \o resp]
    /\ sent' = [sent EXCEPT ![c] = Append(@, resp)]
    /\ UNCHANGED <<closed, disc, ip, built,
                   semaphore, connected, reader, writer, frames, calls, opened,
                   wire, eof, handshake, last>>

\* the agent closes the connection: readline returns b"" once the lines sent
\* before are read
AgentClose(c) ==
    /\ c <= opened
    /\ ~eof[c]
    /\ eof' = [eof EXCEPT ![c] = TRUE]
    /\ UNCHANGED <<closed, disc, ip, built,
                   semaphore, connected, reader, writer, frames, calls, opened,
                   wire, inbox, sent, handshake, last>>

\* the methods of asyncio.StreamReader, the class of self.reader: it has no
\* close(), so line 155 raises AttributeError
StreamReaderMethods == {"at_eof", "exception", "feed_data", "feed_eof", "read",
                        "readexactly", "readline", "readuntil",
                        "set_exception", "set_transport"}

\* lines 151-157: disconnect().  It has no suspension point, so it is one step.
\* Line 155 calls self.reader.close(): when the reader has no such method the
\* call raises and lines 156-157 do not run.
Disconnect ==
    /\ IF connected
       THEN IF "close" \in StreamReaderMethods
            THEN /\ closed' = closed \cup {reader, writer}
                 /\ connected' = FALSE
                 /\ disc' = [done |-> TRUE, was |-> TRUE, error |-> FALSE,
                             now |-> FALSE, stream |-> writer]
            ELSE /\ disc' = [done |-> TRUE, was |-> TRUE, error |-> TRUE,
                             now |-> connected, stream |-> writer]
                 /\ UNCHANGED <<closed, connected>>
       ELSE /\ disc' = [done |-> TRUE, was |-> FALSE, error |-> FALSE,
                        now |-> connected, stream |-> writer]
            /\ UNCHANGED <<closed, connected>>
    /\ UNCHANGED <<ip, built, semaphore, reader, writer, frames, calls, opened,
                   wire, inbox, sent, eof, handshake, last>>

\* what a caller in a call does next
Step(p) ==
    \/ ConnectDone(p)
    \/ StartInit(p)
    \/ Acquire(p)
    \/ DrainDone(p)
    \/ ReadLine(p)
    \/ SleepDone(p)
    \/ Timeout(p)

\* what a caller in a call does next when no timer expires
Progress(p) ==
    \/ ConnectDone(p)
    \/ StartInit(p)
    \/ Acquire(p)
    \/ DrainDone(p)
    \/ ReadLine(p)
    \/ SleepDone(p)

\* Concurrent callers against an agent that echoes each command or stays silent.
Next ==
    \/ \E p \in Callers : \E args \in PairArgs : Call(p, args)
    \/ \E p \in Callers : Step(p)
    \/ \E c \in Conns : \E resp \in Echo(Pending(c)) : AgentRespond(c, resp)

Spec == Init /\ [][Next]_vars

\* One caller and one invocation with any of the argument lists, against an
\* agent that answers as in Answers, stays silent, or closes the connection.
NextSolo ==
    \/ calls < SoloCalls /\ \E args \in ArgSets : Call(1, args)
    \/ Step(1)
    \/ \E c \in Conns : \E resp \in Answers(Pending(c)) : AgentRespond(c, resp)
    \/ \E c \in Conns : AgentClose(c)

SpecSolo == Init /\ [][NextSolo]_vars

\* One caller, invocation after invocation of a single command, against the
\* same agent.
NextRetry ==
    \/ calls < RetryCalls /\ \E args \in RetryArgs : Call(1, args)
    \/ Step(1)
    \/ \E c \in Conns : \E resp \in Answers(Pending(c)) : AgentRespond(c, resp)
    \/ \E c \in Conns : AgentClose(c)

SpecRetry == Init /\ [][NextRetry]_vars

\* One caller that invokes the session and calls disconnect() at any moment,
\* against the same agent.
NextDisc ==
    \/ calls < SoloCalls /\ \E args \in RetryArgs : Call(1, args)
    \/ Step(1)
    \/ \E c \in Conns : \E resp \in Answers(Pending(c)) : AgentRespond(c, resp)
    \/ \E c \in Conns : AgentClose(c)
    \/ Disconnect

SpecDisc == Init /\ [][NextDisc]_vars

\* A session constructed with any of the addresses Ips and then invoked by one
\* caller, against the same agent.
NextBuild ==
    \/ Construct
    \/ built = "yes" /\ calls < SoloCalls /\ \E args \in RetryArgs : Call(1, args)
    \/ Step(1)
    \/ \E c \in Conns : \E resp \in Answers(Pending(c)) : AgentRespond(c, resp)
    \/ \E c \in Conns : AgentClose(c)

SpecBuild == InitBuild /\ [][NextBuild]_vars

\* One caller, invocation after invocation of a single command; any wait may
\* time out, but the event loop resumes a task that can run, an operation that
\* can complete does complete unless its timer expires first, and the agent
\* answers every command it has received.
NextLive ==
    \/ calls < RetryCalls /\ \E args \in RetryArgs : Call(1, args)
    \/ Step(1)
    \/ \E c \in Conns : \E resp \in Answers(Pending(c)) : AgentRespond(c, resp)

SpecLive ==
    /\ Init
    /\ [][NextLive]_vars
    /\ WF_vars(Progress(1))
    /\ WF_vars(\E c \in Conns : \E resp \in Answers(Pending(c)) : AgentRespond(c, resp))

\* ------------------------------------------------------------------ claims
\* the frames between their semaphore acquire (line 114) and their release
Holders == {q \in Callers \X (1..MaxDepth) :
              q[2] <= Depth(q[1]) /\ frames[q[1]][q[2]].held}

\* the lines one invocation wrote to a connection are next to each other
Contiguous(w) ==
    \A i \in 1..Len(w) : \A j \in i..Len(w) : \A k \in j..Len(w) :
        (w[i].call = w[k].call /\ w[i].depth = w[k].depth)
            => (w[j].call = w[i].call /\ w[j].depth = w[i].depth)

\* C1: at most one invocation is between its semaphore acquire and its
\* release, and the commands one invocation writes to a connection are never
\* interleaved with those of another.
C1_Serialized ==
    /\ Cardinality(Holders) <= 1
    /\ \A c \in Conns : Contiguous(wire[c])

\* C2: the semaphore's permit count is always 0 or 1, it never exceeds its
\* initial capacity: every invocation releases once and only after acquiring.
C2_PermitBound == semaphore \in {0, 1}

\* C4: on every connection, a caller-supplied command is written only after
\* both initialization commands were written to and acknowledged on that
\* connection.
C4_InitFirst ==
    \A c \in Conns : \A i \in 1..Len(wire[c]) :
        wire[c][i].depth = 1 => wire[c][i].hs

\* --- what the claims expect of a call that returned ---------------------
\* a line without its line terminator
Chomp(r) ==
    IF Len(r) > 0 /\ SubSeq(r, Len(r), Len(r)) = "\n"
    THEN SubSeq(r, 1, Len(r) - 1)
    ELSE r

\* the lines of a read history that are not the echo of the command they were
\* read for, in the order they were read, without their terminators
DataRead(args, log) ==
    LET d == SelectSeq(log, LAMBDA e : e.line # args[e.k] \o "\r\n")
    IN [i \in 1..Len(d) |-> Chomp(d[i].line)]

\* the projection the specification states for a batch of lines
Expected(batch) ==
    CASE Len(batch) = 0 -> [kind |-> "true", val |-> <<>>]
      [] Len(batch) = 1 -> [kind |-> "scalar", val |-> <<batch[1]>>]
      [] OTHER -> [kind |-> "tuple", val |-> batch]

\* the places on the wire of the commands the returned call of caller p wrote
\* itself (not its handshake)
Sent(p) ==
    UNION {{<<c, i>> : i \in {n \in 1..Len(wire[c]) :
                                 /\ wire[c][n].call = last[p].call
                                 /\ wire[c][n].depth = 1}} : c \in Conns}

\* the returned call of caller p was a single command, not a sequence command,
\* written to a stream on which no line was pending or owed, and it ended
\* without a timeout
PlainSingle(p) ==
    /\ last[p].call > 0
    /\ ~last[p].fault
    /\ Len(last[p].args) = 1
    /\ ~(\E i \in 1..(Len(last[p].args[1]) - 2) :
            SubSeq(last[p].args[1], i, i + 2) = "Seq")

\* C3: when a read or a write of a call timed out, connected is False as the
\* call returns, and the next call writes its commands only to a connection
\* it opened itself, after both initialization commands were written to it in
\* order and acknowledged on it.
C3_ReconnectAfterFault ==
    \A p \in Callers :
        /\ (last[p].call > 0 /\ last[p].fault) => ~last[p].connected
        /\ (last[p].call > 0 /\ last[p].fault /\ frames[p] # <<>>) =>
              \A c \in Conns : \A i \in 1..Len(wire[c]) :
                 (wire[c][i].call = frames[p][1].call /\ wire[c][i].depth = 1) =>
                     /\ wire[c][i].hs
                     /\ i > Len(init_commands)
                     /\ \A j \in 1..Len(init_commands) :
                           /\ wire[c][j].line = init_commands[j] \o "\r\n"
                           /\ wire[c][j].call = frames[p][1].call

\* C3 witness: a call faulted in its transaction, and the next call has
\* written its command after a fresh handshake
C3_Witness ==
    /\ last[1].fault /\ last[1].held
    /\ frames[1] # <<>>
    /\ \E c \in Conns : \E i \in 1..Len(wire[c]) :
          wire[c][i].call = frames[1][1].call /\ wire[c][i].depth = 1

C6_EchoThenData ==
    \A p \in Callers : \A q \in Sent(p) :
        (/\ PlainSingle(p)
         /\ wire[q[1]][q[2]].clean
         /\ Len(sent[q[1]]) >= q[2]
         /\ Len(sent[q[1]][q[2]]) = 2
         /\ sent[q[1]][q[2]][1] = wire[q[1]][q[2]].line)
        => last[p].result =
              [kind |-> "scalar", val |-> <<Chomp(sent[q[1]][q[2]][2])>>]

\* the returned call of caller p was a single sequence command
SeqSingle(p) ==
    /\ last[p].call > 0
    /\ ~last[p].fault
    /\ Len(last[p].args) = 1
    /\ \E i \in 1..(Len(last[p].args[1]) - 2) :
          SubSeq(last[p].args[1], i, i + 2) = "Seq"

\* C7: a single sequence command, answered by its echo, N data lines and the
\* line done, returns exactly the N data lines in order, without the line done.
C7_SeqWithoutSentinel ==
    \A p \in Callers : \A q \in Sent(p) :
        (/\ SeqSingle(p)
         /\ wire[q[1]][q[2]].clean
         /\ Len(sent[q[1]]) >= q[2]
         /\ Len(sent[q[1]][q[2]]) >= 2
         /\ sent[q[1]][q[2]][1] = wire[q[1]][q[2]].line
         /\ sent[q[1]][q[2]][Len(sent[q[1]][q[2]])] = "done\n")
        => LET a == sent[q[1]][q[2]]
               data == [i \in 1..(Len(a) - 2) |-> Chomp(a[i + 1])]
           IN last[p].result = Expected(data)

\* C8: the value a call returns is the projection of the lines it read that
\* were no echo, in the order it read them: True for none, the line itself for
\* one, the tuple of the lines for two or more.
C8_Projection ==
    \A p \in Callers :
        last[p].call > 0 =>
            /\ last[p].res = DataRead(last[p].args, last[p].log)
            /\ last[p].result = Expected(last[p].res)

\* C8 witness: a call of two commands returned a tuple with a line of each
C8_Witness ==
    /\ last[1].result.kind = "tuple"
    /\ Len(last[1].args) = 2
    /\ \E i, j \in 1..Len(last[1].log) :
          /\ last[1].log[i].k = 1 /\ last[1].log[i].line = "a\n"
          /\ last[1].log[j].k = 2 /\ last[1].log[j].line = "a\n"

\* the echo of a command that is no sequence command is the last line read for it
StopsAtEcho(f) ==
    \A i \in 1..(Len(f.log) - 1) :
        (/\ f.log[i].line = f.args[f.log[i].k] \o "\r\n"
         /\ \A n \in 1..(Len(f.args[f.log[i].k]) - 2) :
               SubSeq(f.args[f.log[i].k], n, n + 2) # "Seq")
        => f.log[i + 1].k # f.log[i].k

\* C9: a single command that is no sequence command, on a connected session,
\* answered by its echo and then the end of input, returns True; the call reads
\* nothing past the echo and leaves the session connected.
C9_EchoThenEof ==
    /\ \A p \in Callers : \A d \in 1..Depth(p) : StopsAtEcho(frames[p][d])
    /\ \A p \in Callers : \A q \in Sent(p) :
          (/\ PlainSingle(p)
           /\ wire[q[1]][q[2]].clean
           /\ Len(sent[q[1]]) >= q[2]
           /\ sent[q[1]][q[2]] = <<wire[q[1]][q[2]].line>>
           /\ eof[q[1]])
          => /\ last[p].result = [kind |-> "true", val |-> <<>>]
             /\ last[p].log = <<[line |-> wire[q[1]][q[2]].line, k |-> 1]>>
             /\ last[p].connected

\* C9 witness: such a call returned on a session that was connected before it
C9_Witness ==
    /\ PlainSingle(1)
    /\ last[1].call = 2
    /\ opened = 1
    /\ eof[1]
    /\ \E q \in Sent(1) :
          /\ wire[q[1]][q[2]].clean
          /\ Len(sent[q[1]]) >= q[2]
          /\ sent[q[1]][q[2]] = <<wire[q[1]][q[2]].line>>

\* every command of the first call was written and answered by its echo alone
EchoedOnly(p) ==
    /\ Len(wire[1]) = Len(sent[1])
    /\ \A i \in 1..Len(wire[1]) :
          wire[1][i].depth = 1 => sent[1][i] = <<wire[1][i].line>>

\* C10: the first call of a fresh session, when the agent echoes every line and
\* nothing else, writes initialization command 1, initialization command 2 and
\* then the caller's commands, each once and in that order, returns True and
\* leaves the session connected; no line the handshake collected is part of
\* the result.
C10_FirstCall ==
    \A p \in Callers :
        (/\ calls = 1
         /\ last[p].call = 1
         /\ ~last[p].fault
         /\ EchoedOnly(p))
        => /\ [i \in 1..Len(wire[1]) |-> wire[1][i].line] =
                 [i \in 1..Len(init_commands) |-> init_commands[i] \o "\r\n"]
                   \o [i \in 1..Len(last[p].args) |-> last[p].args[i] \o "\r\n"]
           /\ last[p].result = [kind |-> "true", val |-> <<>>]
           /\ last[p].connected /\ connected
           /\ opened = 1

\* C10 witness: such a first call returned, and its handshake had collected a
\* line
C10_Witness ==
    /\ calls = 1
    /\ last[1].call = 1
    /\ ~last[1].fault
    /\ EchoedOnly(1)
    /\ Len(last[1].args) = 2
    /\ sent[1][1] = <<"a\n", wire[1][1].line>>

\* C11: disconnect() called on a connected session completes without error,
\* closes the stream and leaves the session disconnected; called on a
\* disconnected session it closes nothing and leaves it disconnected.
C11_Disconnect ==
    /\ (disc.done /\ disc.was) =>
          /\ ~disc.error
          /\ ~disc.now
          /\ disc.stream \in closed
    /\ (disc.done /\ ~disc.was) => (~disc.error /\ ~disc.now)

\* dotted-decimal IPv4: four decimal numbers 0..255 separated by dots
DottedDecimal(s) ==
    \E i, j, k \in 1..Len(s) :
        /\ i < j /\ j < k
        /\ \A n \in 1..Len(s) :
              IF n \in {i, j, k}
              THEN SubSeq(s, n, n) = "."
              ELSE SubSeq(s, n, n) \in
                     {"0", "1", "2", "3", "4", "5", "6", "7", "8", "9"}
        /\ \A part \in {<<1, i - 1>>, <<i + 1, j - 1>>, <<j + 1, k - 1>>,
                          <<k + 1, Len(s)>>} :
              /\ part[2] - part[1] \in {0, 1, 2}
              /\ (part[2] - part[1] = 2) =>
                    \/ SubSeq(s, part[1], part[1]) = "1"
                    \/ /\ SubSeq(s, part[1], part[1]) = "2"
                       /\ SubSeq(s, part[1] + 1, part[1] + 1) \in
                             {"0", "1", "2", "3", "4"}
                    \/ /\ SubSeq(s, part[1], part[1] + 1) = "25"
                       /\ SubSeq(s, part[2], part[2]) \in
                             {"0", "1", "2", "3", "4", "5"}

\* C12: construction with an address that is not dotted-decimal IPv4 fails:
\* no session is built with it and no call ever connects with it.
C12_InvalidIpRejected ==
    /\ built = "yes" => DottedDecimal(ip)
    /\ \A p \in Callers : At(p, "connect") => DottedDecimal(ip)

\* the reader and the writer refer to a stream the session has not closed
StreamLive ==
    /\ reader # 0 /\ writer # 0
    /\ reader \notin closed /\ writer \notin closed

\* C13: in every state the reader/writer pair refers to a live open stream if
\* and only if connected is True; in particular, once a timeout has set
\* connected to False, the stream opened earlier is closed.
C13_StreamIffConnected == StreamLive <=> connected

\* C14: a call whose connect or initialization handshake did not complete
\* within the timeout returned as a fault before line 114, left the session
\* disconnected, and wrote none of its caller's commands to any stream.
C14_ConnectFault ==
    \A p \in Callers :
        (last[p].call > 0 /\ last[p].fault /\ ~last[p].held) =>
            /\ ~last[p].connected
            /\ \A c \in Conns : \A i \in 1..Len(wire[c]) :
                  ~(wire[c][i].call = last[p].call /\ wire[c][i].depth = 1)

\* C14 witness: a call returned after its handshake had timed out in the read
\* of the second initialization command
C14_Witness ==
    /\ last[1].call = 1 /\ last[1].fault /\ ~last[1].held
    /\ frames[1] = <<>>
    /\ Len(wire[1]) = 2
    /\ handshake[1] = 1

\* C15: whatever calls timed out before, a call never waits forever at the
\* semaphore of line 114, and when no timer expires and the agent answers,
\* the call returns.
C15_GateNotLeaked ==
    \A p \in Callers :
        /\ At(p, "acquire") ~> ~At(p, "acquire")
        /\ (frames[p] # <<>>) ~> (frames[p] = <<>>)

\* C15 witness: after a call that timed out, the next call reconnected, passed
\* line 114 and returned without a fault
C15_Witness ==
    /\ opened = 2
    /\ last[1].call = 2 /\ ~last[1].fault /\ last[1].held
    /\ frames[1] = <<>>

\* C16: the reader and the writer are replaced or closed only by a caller that
\* holds the semaphore, so while a call is between its acquire and its release
\* the stream it wrote its command to and the stream it reads are still the
\* session's writer and reader, and are not closed.
C16_StreamOwnedByHolder ==
    \A p \in Callers : \A d \in 1..Depth(p) :
        LET f == frames[p][d] IN
        (f.held /\ f.pc \in {"drain", "read", "sleep"}) =>
            /\ f.wr = writer
            /\ f.wr \notin closed
            /\ (f.pc = "read") => (f.rd = reader /\ f.rd \notin closed)

\* whether a line read for a command ends the read loop of that command: the
\* echo of a command without "Seq", or a line equal to done
Ends(args, e) ==
    IF e.line = args[e.k] \o "\r\n"
    THEN \A n \in 1..(Len(args[e.k]) - 2) : SubSeq(args[e.k], n, n + 2) # "Seq"
    ELSE Chomp(e.line) = "done"

\* in a read history, the line after one that ends a loop is read for the next
\* command, and the line after any other line for the same command
LoopsEndAtEnds(args, log) ==
    \A i \in 1..(Len(log) - 1) :
        log[i + 1].k = (IF Ends(args, log[i]) THEN log[i].k + 1 ELSE log[i].k)

\* C17: the read loop of a command with "Seq" in its text is not ended by the
\* echo, only by a line equal to done (or a timeout); the read loop of any
\* other command ends at the first echo or line equal to done (or a timeout).
C17_LoopEnd ==
    \A p \in Callers :
        /\ \A d \in 1..Depth(p) :
              LET f == frames[p][d] IN
              /\ LoopsEndAtEnds(f.args, f.log)
              /\ \A i \in 1..Len(f.log) :
                    /\ f.log[i].k <= f.k
                    /\ (f.log[i].k = f.k) => ~Ends(f.args, f.log[i])
        /\ last[p].call > 0 =>
              /\ LoopsEndAtEnds(last[p].args, last[p].log)
              /\ ~last[p].fault =>
                    /\ last[p].log # <<>>
                    /\ last[p].log[Len(last[p].log)].k = Len(last[p].args)
                    /\ Ends(last[p].args, last[p].log[Len(last[p].log)])

\* C17 witness: a sequence command returned after the echo, two lines and done
C17_Witness ==
    /\ last[1].args = <<"clickSeqA">>
    /\ ~last[1].fault
    /\ [i \in 1..Len(last[1].log) |-> last[1].log[i].line] =
          <<"clickSeqA\r\n", "a\n", "b\n", "done\n">>

\* the lines invocation n wrote at nesting depth d to connection c, in order
WrittenOn(c, n, d) ==
    LET w == SelectSeq(wire[c], LAMBDA e : e.call = n /\ e.depth = d)
    IN [i \in 1..Len(w) |-> w[i].line]

\* invocation n at depth d has written exactly the first m of the commands
\* args, in argument order, each once and followed by CR LF, to one connection
WroteFirst(n, d, args, m) ==
    \E c \in Conns :
        /\ WrittenOn(c, n, d) = [i \in 1..m |-> args[i] \o "\r\n"]
        /\ \A b \in Conns \ {c} : WrittenOn(b, n, d) = <<>>

\* C18: a call writes its commands in argument order, each followed by CR LF;
\* command k+1 is written only after the read loop of command k has ended;
\* a call that returned without a fault wrote every command exactly once.
C18_WriteOrder ==
    \A p \in Callers :
        /\ \A d \in 1..Depth(p) :
              LET f == frames[p][d] IN
              /\ WroteFirst(f.call, d, f.args, f.k)
              /\ \A j \in 1..(f.k - 1) :
                    \E i \in 1..Len(f.log) :
                        f.log[i].k = j /\ Ends(f.args, f.log[i])
        /\ (last[p].call > 0 /\ ~last[p].fault /\ frames[p] = <<>>) =>
              /\ WroteFirst(last[p].call, 1, last[p].args, Len(last[p].args))
              /\ \A j \in 1..Len(last[p].args) :
                    \E i \in 1..Len(last[p].log) :
                        last[p].log[i].k = j /\ Ends(last[p].args, last[p].log[i])

\* C18 witness: a call of two commands returned without a fault
C18_Witness ==
    /\ last[1].call > 0 /\ ~last[1].fault
    /\ Len(last[1].args) = 2
    /\ frames[1] = <<>>
    /\ Len(wire[1]) = 4

\* the returned call of caller p was a single command that is no sequence
\* command, written at place q of the wire to a stream with no line pending or
\* owed, and the agent answered it with one line and then the echo
DataThenEcho(p, q) ==
    /\ PlainSingle(p)
    /\ wire[q[1]][q[2]].clean
    /\ Len(sent[q[1]]) >= q[2]
    /\ Len(sent[q[1]][q[2]]) = 2
    /\ sent[q[1]][q[2]][1] # wire[q[1]][q[2]].line
    /\ sent[q[1]][q[2]][2] = wire[q[1]][q[2]].line

\* the call read both lines of the answer, the echo last, and returned the
\* first one
ReadUpToEcho(p, q) ==
    /\ last[p].result =
          [kind |-> "scalar", val |-> <<Chomp(sent[q[1]][q[2]][1])>>]
    /\ [i \in 1..Len(last[p].log) |-> last[p].log[i].line] = sent[q[1]][q[2]]

\* C19 as stated: for a command that is no sequence command, any line before
\* the echo that differs from the command line is appended and the loop reads
\* on until the echo; answered by one data line and then the echo, the call
\* returns the data line and leaves no line of the command unread.
C19_AnyLineThenEcho ==
    \A p \in Callers : \A q \in Sent(p) :
        DataThenEcho(p, q) => ReadUpToEcho(p, q)

\* C19 amended: the same for a line before the echo that is not the line done.
C19_DataThenEcho ==
    \A p \in Callers : \A q \in Sent(p) :
        (DataThenEcho(p, q) /\ Chomp(sent[q[1]][q[2]][1]) # "done")
            => ReadUpToEcho(p, q)

\* C19 witness: a command answered by the line a and then its echo returned
C19_Witness ==
    \E q \in Sent(1) :
        /\ DataThenEcho(1, q)
        /\ sent[q[1]][q[2]][1] = "a\n"
        /\ last[1].result = [kind |-> "scalar", val |-> <<"a">>]

\* C20: a call that timed out in the drain or a read of its command number n
\* wrote its first n commands and none after it, read no line for a later
\* command, had ended the read loop of every command before n and not that of
\* command n, and is no longer running.
C20_FaultStopsBatch ==
    \A p \in Callers :
        (last[p].call > 0 /\ last[p].fault /\ last[p].held) =>
            \E n \in 1..Len(last[p].args) :
                /\ Cardinality(Sent(p)) = n
                /\ \A q \in Sent(p) :
                      \E i \in 1..n : wire[q[1]][q[2]].line = last[p].args[i] \o "\r\n"
                /\ \A i \in 1..Len(last[p].log) :
                      /\ last[p].log[i].k <= n
                      /\ (last[p].log[i].k = n) => ~Ends(last[p].args, last[p].log[i])
                /\ \A j \in 1..(n - 1) :
                      \E i \in 1..Len(last[p].log) :
                          last[p].log[i].k = j /\ Ends(last[p].args, last[p].log[i])
                /\ \A d \in 1..Depth(p) : frames[p][d].call # last[p].call

\* C20 witness: a call of two commands timed out in its first command and
\* returned with the second command unwritten
C20_Witness ==
    /\ last[1].call > 0 /\ last[1].fault /\ last[1].held
    /\ Len(last[1].args) = 2
    /\ Cardinality(Sent(1)) = 1
    /\ frames[1] = <<>>

\* caller p is suspended in a wait that nothing has completed yet: the
\* connection is being opened, the handshake is in flight, no permit is free,
\* the write is not flushed, or no line has arrived
Waiting(p) ==
    /\ frames[p] # <<>>
    /\ \/ Top(p).pc \in {"connect", "drain"}
       \/ Depth(p) > 1
       \/ Top(p).pc = "acquire" /\ semaphore = 0
       \/ Top(p).pc = "read" /\ inbox[Top(p).rd] = <<>> /\ ~eof[Top(p).rd]

\* C21: every wait of a call is bounded by the timeout: in each state in which
\* a call is suspended, the wait for the semaphore included, the call can
\* leave by a timeout.
C21_EveryWaitBounded ==
    \A p \in Callers : Waiting(p) => ENABLED Timeout(p)

\* C22: when the handshake is cut by the timeout, the call that started it
\* returns the projection of the batch the handshake transaction had collected
\* so far, and the session is left disconnected.
C22_HandshakePartial ==
    [][\A p \in Callers :
          (Depth(p) = 2 /\ frames'[p] = <<>>) =>
              /\ last'[p].result = Expected(frames[p][2].res)
              /\ ~connected']_vars

\* C23: the read loop terminates when the peer has closed the stream: a call
\* whose readline has yielded end of input (the empty line) does not go on to
\* read again, so the batch stays finite and the call returns.  (Stated of the
\* caller's own transaction; the handshake is cut by the timer of line 112.)
C23_EofEndsLoop ==
    \A p \in Callers :
        Depth(p) = 1 =>
            \A i \in 1..Len(Top(p).log) :
                Top(p).log[i].line = "" =>
                    (i = Len(Top(p).log) /\ Top(p).pc # "read")

\* C24: no call writes one of its caller's commands to the stream, or reads a
\* line for it, in a step taken while the session is disconnected.
C24_NoUseWhileDisconnected ==
    [][/\ \A c \in Conns :
             (/\ Len(wire'[c]) > Len(wire[c])
              /\ wire'[c][Len(wire'[c])].depth = 1) => connected
       /\ \A p \in Callers :
             (/\ Depth(p) = 1
              /\ Top(p).pc = "read"
              /\ Len(inbox'[Top(p).rd]) < Len(inbox[Top(p).rd])) => connected]_vars

\* C25: for one reconnect at most one connection is opened and the reader and
\* writer are assigned once: a connection is opened, and the reader and writer
\* are replaced, only in a step taken while the session is disconnected, and
\* at most one handshake is in flight.
C25_OneConnectionPerReconnect ==
    [][/\ (opened' > opened \/ reader' # reader \/ writer' # writer) => ~connected
       /\ Cardinality({p \in Callers : Len(frames'[p]) > 1}) <= 1]_vars

\* the lines the returned call of caller p read for its command number j
ReadFor(p, j) ==
    LET e == SelectSeq(last[p].log, LAMBDA x : x.k = j)
    IN [i \in 1..Len(e) |-> e[i].line]

\* C26: the lines a call that returned without a fault read for each of its
\* commands are exactly the lines the agent sent in answer to that command:
\* none of them answers an earlier command, and no line of the answer is left
\* unread for a later call to report.
C26_NoStaleLines ==
    \A p \in Callers :
        (last[p].call > 0 /\ ~last[p].fault) =>
            \A q \in Sent(p) :
                LET j == Cardinality({r \in Sent(p) : r[1] = q[1] /\ r[2] <= q[2]})
                IN /\ Len(sent[q[1]]) >= q[2]
                   /\ ReadFor(p, j) = sent[q[1]][q[2]]

\* the number a string of decimal digits denotes, -1 for any other string
DecimalValue(t) ==
    LET digit(ch) == CASE ch = "0" -> 0 [] ch = "1" -> 1 [] ch = "2" -> 2
                       [] ch = "3" -> 3 [] ch = "4" -> 4 [] ch = "5" -> 5
                       [] ch = "6" -> 6 [] ch = "7" -> 7 [] ch = "8" -> 8
                       [] ch = "9" -> 9 [] OTHER -> -1
        d == [i \in 1..Len(t) |-> digit(SubSeq(t, i, i))]
    IN IF Len(t) \notin {1, 2, 3} \/ \E i \in 1..Len(t) : d[i] < 0
       THEN -1
       ELSE IF Len(t) = 1 THEN d[1]
            ELSE IF Len(t) = 2 THEN 10 * d[1] + d[2]
                 ELSE 100 * d[1] + 10 * d[2] + d[3]

\* a decimal octet 0..255 written without leading zeros
PlainOctet(t) ==
    /\ DecimalValue(t) \in 0..255
    /\ Len(t) > 1 => SubSeq(t, 1, 1) # "0"

\* four such octets separated by dots, and nothing else
FourOctets(s) ==
    \E i, j, k \in 1..Len(s) :
        /\ i < j /\ j < k
        /\ SubSeq(s, i, i) = "." /\ SubSeq(s, j, j) = "." /\ SubSeq(s, k, k) = "."
        /\ PlainOctet(SubSeq(s, 1, i - 1))
        /\ PlainOctet(SubSeq(s, i + 1, j - 1))
        /\ PlainOctet(SubSeq(s, j + 1, k - 1))
        /\ PlainOctet(SubSeq(s, k + 1, Len(s)))

\* C27: for the address a session was constructed with, _validate_ip returns
\* it unchanged exactly when it consists of four dot-separated decimal octets
\* 0..255 without leading zeros, and raises ValueError for any other string.
C27_ValidateIp ==
    built # "no" =>
        IF FourOctets(ip)
        THEN validate_ip(ip) = [raised |-> FALSE, value |-> ip]
        ELSE validate_ip(ip).raised

====
